---- MODULE Spec2Model ----
(***************************************************************************)
(* Roof/door actuator, limit-switch input and sensor pipeline of           *)
(* naritcm-lidar-api.                                                      *)
(*                                                                         *)
(* Two implementations of the actuator and of the limit input live in the  *)
(* repository: the router package (src/app/routers/roof.py: DoorController *)
(* and DebouncedInput) and the single-file service (src/main.py:           *)
(* DOManager and DIReader).  The variable impl says which one a behaviour  *)
(* runs: "roof" or "main".                                                 *)
(***************************************************************************)
EXTENDS Integers, Sequences, FiniteSets, TLC

VARIABLES
    impl,       \* "roof" (src/app/routers/roof.py) or "main" (src/main.py)
    state,      \* self.state of the actuator
    line,       \* level of the two output lines: [open, close] -> BOOLEAN
    lock,       \* self.lock: 0 when free, else the thread that holds it
    pc,         \* position of every thread inside its current call
    op,         \* the call a thread is executing: [kind, target, ms]
    ret,        \* set by the step in which a call returns: its outcome, state and lines at that
                \* moment (what the endpoint answers its client follows from it: CommandAnswer)
    held,       \* history: target of a completed hold no later call has followed, or "none"
    cancelled,  \* history: threads whose pulse was sleeping when a stop() returned
    rawLevel,   \* electrical level of the limit-switch line
    rawAge,     \* history: ticks since the last change of rawLevel, up to the window
    steady,     \* history: the last electrical level the line kept for a whole debounce window
    activeHigh, \* DI1_ACTIVE_HIGH
    diPc,       \* DebouncedInput._loop: "start", "loop", "sampled"
    diV,        \* DebouncedInput._loop: the local v of the iteration in progress
    diRaw,      \* DebouncedInput._raw
    diStable,   \* DebouncedInput._stable
    diElapsed,  \* time.monotonic() - DebouncedInput._last_change, in ticks, up to the window
    diSleep,    \* ticks left of the sampler's time.sleep(0.01)
    diRet,      \* set by the step in which DebouncedInput.read() returns: its value
    votePc,     \* DIReader.read: "idle", "read" (about to sample), "sleep" (after the last sample)
    votes,      \* DIReader.read: the local votes
    voteCount,  \* DIReader.read: samples taken so far
    voteSleep,  \* ticks left of DIReader.read's current sleep
    voteSeen,   \* history: the values steady had while the DIReader.read in progress ran
    voteRet,    \* set by the step in which DIReader.read() returns: value, voteSeen, raw level
    stableHist, \* history of _stable: [age, gap]. age: ticks since its last change, up to the
                \* window, -1 before its first change; gap: the age at its last change, -1
                \* before its second change
    life,       \* DebouncedInput.close: [stop, closed, pc, joinLeft]. stop: _stop is set; closed:
                \* gpio was closed; pc: "idle", "join", "release", "done"; joinLeft: ticks left
                \* of the timeout of self._thread.join(timeout=0.5)
    mb,         \* the shared Modbus client: [connected, lock]. lock: the holders of
                \* _modbus_lock (src/main.py), at most one
    req,        \* the requests: [pc, todo, calc]. pc[r] of a one-shot read: "idle",
                \* "connect", "request", "exchange"; todo[r]: the units still to read, in
                \* order; calc: the last computation a request made: [fn, arg, out],
                \* or the state of the standalone writer
    poll,       \* the poll loop: [pc, label, payload, readOutcome, tick, sinkWritten, rr].
                \* label: the label being read; payload: [ok, error, entries];
                \* readOutcome (history): how the read of each label ended in this tick
                \* ("none", "ok", "fail"); tick (history): ticks started; sinkWritten
                \* (history): labels handed to influx_write_env in this tick; rr
                \* (history): the last response of this tick, "none" before it
    hub,        \* the subscribers: [clients, conn, snap, stale, ws, lastTick]. clients: the
                \* live set; conn[s]: "new", "open", "gone" (peer left), "closed" (handler
                \* ended); snap: the live set when the fan-out started; stale: those
                \* whose send failed in this tick; ws: the subscriber of the send in
                \* progress; lastTick[s] (history): tick of the last payload sent to s
    shut        \* the shutdown handler: [stopSet, cancelReq, pc, sink, app]. stopSet:
                \* _stop_event is set; cancelReq: _poll_task.cancel() was called and the
                \* task not yet resumed; pc: "idle", "yield", "await", "done"; sink: the
                \* InfluxDB client, "none" (src/main.py has none), "open" or "closed";
                \* app: the
                \* shutdown handler of the application, "idle", "sensors" (stopping the
                \* sensor tasks), "roof" (in close_roof), "closed" (returned
                \* after door.close()), "returned" (returned without it), "raised"
                \* (left by the CancelledError that stop_sensor_tasks raised)

actuatorVars == <<impl, state, line, lock, pc, op, ret, held, cancelled>>

lineVars == <<rawLevel, rawAge, steady, activeHigh>>

samplerVars == <<diPc, diV, diRaw, diStable, diElapsed, diSleep, diRet, stableHist>>

voteVars == <<votePc, votes, voteCount, voteSleep, voteSeen, voteRet>>

inputVars == <<lineVars, samplerVars, voteVars, life>>

sensorVars == <<mb, req, poll, hub, shut>>

vars == <<actuatorVars, inputVars, sensorVars>>

----------------------------------------------------------------------------
(* Bounds of the model *)

NumThreads == 2

Threads == 1..NumThreads

(* Program constants *)

MAX_PULSE_MS_ROOF == 30000

MAX_PULSE_MS_MAIN == 5000

DI1_DEBOUNCE_MS == 50

SAMPLE_SLEEP_MS == 10

VOTE_READS == 3

\* resolution of time: the number of ticks in one sampling sleep (with 3, a third
\* of the debounce window is a whole number of ticks)
TICKS_PER_SAMPLE == 3

Ticks(ms) == (ms * TICKS_PER_SAMPLE) \div SAMPLE_SLEEP_MS

DebounceTicks == Ticks(DI1_DEBOUNCE_MS)

Impls == {"roof", "main"}

Targets == {"open", "close"}

MaxPulseMs(i) == IF i = "roof" THEN MAX_PULSE_MS_ROOF ELSE MAX_PULSE_MS_MAIN

\* durations a caller may pass: negative, zero, the ends of the range, and one above
Durations(i) == {-1, 0, 1, MaxPulseMs(i), MaxPulseMs(i) + 1}

----------------------------------------------------------------------------
(* Actuator: DoorController / DOManager *)

OtherLine(target) == IF target = "open" THEN "close" ELSE "open"

MovingState(target) == IF target = "open" THEN "opening" ELSE "closing"

HoldState(i, target) ==
    IF i = "roof"
    THEN (IF target = "open" THEN "hold_open" ELSE "hold_close")
    ELSE (IF target = "open" THEN "holding_open" ELSE "holding_close")

ActuatorStates(i) ==
    {"idle", "opening", "closing", HoldState(i, "open"), HoldState(i, "close")}

\* a range check that lets 0 through and has no ceiling
ValidMsLoose(i, ms) == ms >= 0

\* the range check at the head of pulse()
ValidMs(i, ms) ==
    IF i = "roof"
    THEN ~(ms <= 0 \/ ms > MAX_PULSE_MS_ROOF)
    ELSE (1 <= ms /\ ms <= MAX_PULSE_MS_MAIN)

NoOp == [kind |-> "none", target |-> "open", ms |-> 0]

NoRet == [thread |-> 0, kind |-> "none", outcome |-> "none", state |-> "idle",
          open |-> FALSE, close |-> FALSE, ms |-> 0]

\* what the endpoint answers for a call of the given kind that ends with the
\* outcome o.  roof_open / roof_close check ms (Query ge=1, le=30000), start
\* door.pulse in a daemon thread and answer ok at once; every other endpoint
\* makes the call itself and answers ok when it returns, an error when it raises
\* (door_open / door_close: except Exception -> HTTPException 500).
CommandAnswer(i, kind, o) ==
    IF i = "roof" /\ kind = "pulse" /\ o # "ValueError"
    THEN "ok"
    ELSE IF o = "ok" THEN "ok" ELSE "error"

\* what a call reports when it ends in the state (st, ln)
Outcome(t, o, st, ln) ==
    [thread |-> t, kind |-> op[t].kind, outcome |-> o, state |-> st,
     open |-> ln["open"], close |-> ln["close"], ms |-> op[t].ms]

\* positions at which the thread holds the lock and is about to write a line
LowOpenPcs == {"p_low_open", "c_low_open", "h_low_open", "s_low_open"}

LowClosePcs == {"p_low_close", "c_low_close", "h_low_close", "s_low_close"}

WritePcs == LowOpenPcs \cup LowClosePcs \cup {"p_write", "h_write"}

LockedPcs == WritePcs \cup {"p_state", "h_state", "c_idle", "s_idle"}

\* a pulse from the moment its line is asserted until its cleanup has run
CleanupPcs == {"c_lock", "c_low_open", "c_low_close", "c_idle"}

PulseInProgressPcs == {"sleep"} \cup CleanupPcs

AfterLowOpen(p) ==
    CASE p = "p_low_open" -> "p_low_close"
      [] p = "c_low_open" -> "c_low_close"
      [] p = "h_low_open" -> "h_low_close"
      [] p = "s_low_open" -> "s_low_close"

AfterLowClose(p) ==
    CASE p = "p_low_close" -> "p_state"
      [] p = "c_low_close" -> "c_idle"
      [] p = "h_low_close" -> "h_write"
      [] p = "s_low_close" -> "s_idle"

\* a call that may still take effect: issued and not past its locked section
\* (a pulse that sleeps or waits for its cleanup has had its effect)
Settled(u) == pc[u] \in {"idle", "q_lock"} \cup PulseInProgressPcs

\* history bookkeeping of a pulse/hold/stop call being issued by t
Issue(t) ==
    /\ held' = "none"
    /\ cancelled' = [cancelled EXCEPT ![t] = FALSE]

ActuatorInit(impls) ==
    /\ impl \in impls
    /\ state = "idle"
    /\ line = [l \in Targets |-> FALSE]
    /\ lock = 0
    /\ pc = [t \in Threads |-> "idle"]
    /\ op = [t \in Threads |-> NoOp]
    /\ ret = NoRet
    /\ held = "none"
    /\ cancelled = [t \in Threads |-> FALSE]

\* pulse(target, ms) with ms out of range: raise ValueError before the lock
PulseReject(t) ==
    /\ pc[t] = "idle"
    /\ \E target \in Targets, ms \in Durations(impl) :
          /\ ~ValidMs(impl, ms)
          /\ ret' = [thread |-> t, kind |-> "pulse", outcome |-> "ValueError",
                     state |-> state, open |-> line["open"], close |-> line["close"],
                     ms |-> ms]
    /\ Issue(t)
    /\ UNCHANGED <<impl, state, line, lock, pc, op>>
    /\ UNCHANGED <<inputVars, sensorVars>>

\* pulse(target, ms) with ms in range: go on to "with self.lock"
PulseCall(t) ==
    /\ pc[t] = "idle"
    /\ \E target \in Targets, ms \in Durations(impl) :
          /\ ValidMs(impl, ms)
          /\ op' = [op EXCEPT ![t] = [kind |-> "pulse", target |-> target, ms |-> ms]]
    /\ pc' = [pc EXCEPT ![t] = "p_lock"]
    /\ Issue(t)
    /\ ret' = NoRet
    /\ UNCHANGED <<impl, state, line, lock>>
    /\ UNCHANGED <<inputVars, sensorVars>>

HoldCall(t) ==
    /\ pc[t] = "idle"
    /\ \E target \in Targets :
          op' = [op EXCEPT ![t] = [kind |-> "hold", target |-> target, ms |-> 0]]
    /\ pc' = [pc EXCEPT ![t] = "h_lock"]
    /\ Issue(t)
    /\ ret' = NoRet
    /\ UNCHANGED <<impl, state, line, lock>>
    /\ UNCHANGED <<inputVars, sensorVars>>

StopCall(t) ==
    /\ pc[t] = "idle"
    /\ op' = [op EXCEPT ![t] = [kind |-> "stop", target |-> "open", ms |-> 0]]
    /\ pc' = [pc EXCEPT ![t] = "s_lock"]
    /\ Issue(t)
    /\ ret' = NoRet
    /\ UNCHANGED <<impl, state, line, lock>>
    /\ UNCHANGED <<inputVars, sensorVars>>

\* "with self.lock:" of pulse (first block and cleanup), hold and stop
Acquire(t) ==
    /\ pc[t] \in {"p_lock", "c_lock", "h_lock", "s_lock"}
    /\ lock = 0
    /\ lock' = t
    /\ pc' = [pc EXCEPT ![t] =
                CASE pc[t] = "p_lock" -> "p_low_open"
                  [] pc[t] = "c_lock" -> "c_low_open"
                  [] pc[t] = "h_lock" -> "h_low_open"
                  [] pc[t] = "s_lock" -> "s_low_open"]
    /\ ret' = NoRet
    /\ UNCHANGED <<impl, state, line, op, held, cancelled>>
    /\ UNCHANGED <<inputVars, sensorVars>>

\* all_low(): self.gpio_open.write(False)
AllLowOpen(t) ==
    /\ pc[t] \in LowOpenPcs
    /\ line' = [line EXCEPT !["open"] = FALSE]
    /\ pc' = [pc EXCEPT ![t] = AfterLowOpen(pc[t])]
    /\ ret' = NoRet
    /\ UNCHANGED <<impl, state, lock, op, held, cancelled>>
    /\ UNCHANGED <<inputVars, sensorVars>>

\* all_low() that forgets the CLOSE line
AllLowCloseSkipped(t) ==
    /\ pc[t] \in LowClosePcs
    /\ pc' = [pc EXCEPT ![t] = AfterLowClose(pc[t])]
    /\ ret' = NoRet
    /\ UNCHANGED <<impl, state, line, lock, op, held, cancelled>>
    /\ UNCHANGED <<inputVars, sensorVars>>

\* all_low(): self.gpio_close.write(False)
AllLowClose(t) ==
    /\ pc[t] \in LowClosePcs
    /\ line' = [line EXCEPT !["close"] = FALSE]
    /\ pc' = [pc EXCEPT ![t] = AfterLowClose(pc[t])]
    /\ ret' = NoRet
    /\ UNCHANGED <<impl, state, lock, op, held, cancelled>>
    /\ UNCHANGED <<inputVars, sensorVars>>

\* pulse: self.state = "opening" / "closing"
PulseSetState(t) ==
    /\ pc[t] = "p_state"
    /\ state' = MovingState(op[t].target)
    /\ pc' = [pc EXCEPT ![t] = "p_write"]
    /\ ret' = NoRet
    /\ UNCHANGED <<impl, line, lock, op, held, cancelled>>
    /\ UNCHANGED <<inputVars, sensorVars>>

\* a pulse that keeps the lock while it sleeps
PulseAfterAssertLocked(t) ==
    /\ lock' = lock
    /\ pc' = [pc EXCEPT ![t] = "sleep"]

\* where pulse goes once its line is asserted: the lock is released and the
\* thread sleeps outside it
PulseAfterAssert(t) ==
    /\ lock' = 0
    /\ pc' = [pc EXCEPT ![t] = "sleep"]

\* pulse: self.gpio_<target>.write(True), then leave the with-block
PulseWrite(t) ==
    /\ pc[t] = "p_write"
    /\ line' = [line EXCEPT ![op[t].target] = TRUE]
    /\ PulseAfterAssert(t)
    /\ ret' = NoRet
    /\ UNCHANGED <<impl, state, op, held, cancelled>>
    /\ UNCHANGED <<inputVars, sensorVars>>

\* pulse: time.sleep(ms / 1000.0) runs to its end, then "finally: with self.lock"
SleepDone(t) ==
    /\ pc[t] = "sleep"
    /\ pc' = [pc EXCEPT ![t] = "c_lock"]
    /\ ret' = NoRet
    /\ UNCHANGED <<impl, state, line, lock, op, held, cancelled>>
    /\ UNCHANGED <<inputVars, sensorVars>>

\* pulse cleanup: self.state = "idle", leave the with-block, return
CleanupIdle(t) ==
    /\ pc[t] = "c_idle"
    /\ state' = "idle"
    /\ lock' = 0
    /\ pc' = [pc EXCEPT ![t] = "idle"]
    /\ ret' = Outcome(t, "ok", "idle", line)
    /\ op' = [op EXCEPT ![t] = NoOp]
    /\ cancelled' = [cancelled EXCEPT ![t] = FALSE]
    /\ UNCHANGED <<impl, line, held>>
    /\ UNCHANGED <<inputVars, sensorVars>>

\* hold: self.gpio_<target>.write(True)
HoldWrite(t) ==
    /\ pc[t] = "h_write"
    /\ line' = [line EXCEPT ![op[t].target] = TRUE]
    /\ pc' = [pc EXCEPT ![t] = "h_state"]
    /\ ret' = NoRet
    /\ UNCHANGED <<impl, state, lock, op, held, cancelled>>
    /\ UNCHANGED <<inputVars, sensorVars>>

\* hold: self.state = "hold_<target>", leave the with-block, return
HoldSetState(t) ==
    /\ pc[t] = "h_state"
    /\ state' = HoldState(impl, op[t].target)
    /\ lock' = 0
    /\ pc' = [pc EXCEPT ![t] = "idle"]
    /\ ret' = Outcome(t, "ok", HoldState(impl, op[t].target), line)
    /\ op' = [op EXCEPT ![t] = NoOp]
    /\ held' = IF \A u \in Threads \ {t} : Settled(u) THEN op[t].target ELSE "none"
    /\ UNCHANGED <<impl, line, cancelled>>
    /\ UNCHANGED <<inputVars, sensorVars>>

\* stop: self.state = "idle", leave the with-block, return
StopIdle(t) ==
    /\ pc[t] = "s_idle"
    /\ state' = "idle"
    /\ lock' = 0
    /\ pc' = [pc EXCEPT ![t] = "idle"]
    /\ ret' = Outcome(t, "ok", "idle", line)
    /\ op' = [op EXCEPT ![t] = NoOp]
    /\ cancelled' = [u \in Threads |->
                        \/ cancelled[u]
                        \/ pc[u] = "sleep" /\ \A v \in Threads \ {t} : Settled(v)]
    /\ UNCHANGED <<impl, line, held>>
    /\ UNCHANGED <<inputVars, sensorVars>>

\* whether status() takes self.lock: DoorController does, DOManager does not
StatusTakesLock(i) == i = "roof"

\* status(): the call; DOManager.status returns self.state at once
StatusCall(t) ==
    /\ pc[t] = "idle"
    /\ IF StatusTakesLock(impl)
       THEN /\ pc' = [pc EXCEPT ![t] = "q_lock"]
            /\ op' = [op EXCEPT ![t] = [kind |-> "status", target |-> "open", ms |-> 0]]
            /\ ret' = NoRet
       ELSE /\ ret' = [thread |-> t, kind |-> "status", outcome |-> "ok", state |-> state,
                       open |-> line["open"], close |-> line["close"], ms |-> 0]
            /\ UNCHANGED <<pc, op>>
    /\ UNCHANGED <<impl, state, line, lock, held, cancelled>>
    /\ UNCHANGED <<inputVars, sensorVars>>

\* DoorController.status: with self.lock, read state and both line values
StatusRead(t) ==
    /\ pc[t] = "q_lock"
    /\ lock = 0
    /\ ret' = Outcome(t, "ok", state, line)
    /\ pc' = [pc EXCEPT ![t] = "idle"]
    /\ op' = [op EXCEPT ![t] = NoOp]
    /\ UNCHANGED <<impl, state, line, lock, held, cancelled>>
    /\ UNCHANGED <<inputVars, sensorVars>>

\* a GPIO write raises: the line keeps its level, the exception leaves the
\* with-block (releasing the lock) and the call; no handler runs
WriteFails(t) ==
    /\ pc[t] \in WritePcs
    /\ lock' = 0
    /\ pc' = [pc EXCEPT ![t] = "idle"]
    /\ ret' = Outcome(t, "GPIOError", state, line)
    /\ op' = [op EXCEPT ![t] = NoOp]
    /\ cancelled' = [cancelled EXCEPT ![t] = FALSE]
    /\ UNCHANGED <<impl, state, line, held>>
    /\ UNCHANGED <<inputVars, sensorVars>>

----------------------------------------------------------------------------
(* The limit-switch line and the passing of time *)

(* time.monotonic() is not kept: every timestamp of the code is used only in a *)
(* difference with the current time, so the model keeps that difference, in    *)
(* ticks, and lets it saturate at the debounce window.                         *)

Min(a, b) == IF a < b THEN a ELSE b

Max(a, b) == IF a > b THEN a ELSE b

NoRead == [done |-> FALSE, value |-> FALSE]

NoVote == [done |-> FALSE, value |-> FALSE, seen |-> {}, raw |-> FALSE]

\* a reading that ignores the polarity and passes the electrical level on
NormElectrical(v) == v

\* _read_norm / the last line of DIReader.read: electrical to logical level
Norm(v) == IF activeHigh THEN v ELSE ~v

\* the line has been at its level for a whole window when the service starts
LineInit ==
    /\ rawLevel \in BOOLEAN
    /\ rawAge = DebounceTicks
    /\ steady = rawLevel
    /\ activeHigh \in BOOLEAN

SamplerInit ==
    /\ diPc = "start"
    /\ diV = FALSE
    /\ diRaw = FALSE
    /\ diStable = FALSE
    /\ diElapsed = 0
    /\ diSleep = 0
    /\ diRet = NoRead
    /\ stableHist = [age |-> -1, gap |-> -1]

\* DebouncedInput.__init__: the stop event is clear, the line open, nobody closing
LifeInit == life = [stop |-> FALSE, closed |-> FALSE, pc |-> "idle", joinLeft |-> 0]

VoteInit ==
    /\ votePc = "idle"
    /\ votes = 0
    /\ voteCount = 0
    /\ voteSleep = 0
    /\ voteSeen = {}
    /\ voteRet = NoVote

\* one tick of time passes; a level kept for a whole window becomes the steady one
Tick ==
    /\ rawAge' = Min(rawAge + 1, DebounceTicks)
    /\ steady' = IF rawAge + 1 >= DebounceTicks THEN rawLevel ELSE steady
    /\ diElapsed' = IF diPc = "start" THEN diElapsed ELSE Min(diElapsed + 1, DebounceTicks)
    /\ diSleep' = Max(diSleep - 1, 0)
    /\ stableHist' = [stableHist EXCEPT
                         !.age = IF @ < 0 THEN @ ELSE Min(@ + 1, DebounceTicks)]
    /\ life' = [life EXCEPT !.joinLeft = Max(@ - 1, 0)]
    /\ voteSleep' = Max(voteSleep - 1, 0)
    /\ voteSeen' = IF votePc = "idle" THEN voteSeen ELSE voteSeen \cup {steady'}
    /\ diRet' = NoRead
    /\ voteRet' = NoVote
    /\ UNCHANGED <<rawLevel, activeHigh>>
    /\ UNCHANGED <<diPc, diV, diRaw, diStable>>
    /\ UNCHANGED <<votePc, votes, voteCount>>
    /\ UNCHANGED <<actuatorVars, sensorVars>>

\* the switch (or noise on the wire) changes the level of the line
RawFlip ==
    /\ rawAge > 0
    /\ rawLevel' = ~rawLevel
    /\ rawAge' = 0
    /\ diRet' = NoRead
    /\ voteRet' = NoVote
    /\ UNCHANGED <<steady, activeHigh>>
    /\ UNCHANGED <<diPc, diV, diRaw, diStable, diElapsed, diSleep, stableHist>>
    /\ UNCHANGED <<votePc, votes, voteCount, voteSleep, voteSeen>>
    /\ UNCHANGED <<actuatorVars, life, sensorVars>>

----------------------------------------------------------------------------
(* DebouncedInput (src/app/routers/roof.py) *)

\* the comparison without the window: any elapsed time is enough
WindowElapsedAtOnce(elapsed) == elapsed >= 0

\* (now - self._last_change) * 1000 >= DI1_DEBOUNCE_MS, for an elapsed time in ticks
WindowElapsed(elapsed) ==
    elapsed * SAMPLE_SLEEP_MS >= DI1_DEBOUNCE_MS * TICKS_PER_SAMPLE

\* the history of _stable after an assignment of the value v to it
StableHistAfter(v) ==
    IF v # diStable THEN [age |-> 0, gap |-> stableHist.age] ELSE stableHist

\* _loop, before the while: _raw, _stable and _last_change from a first reading
\* (a read of a closed line raises, which ends the thread)
LoopStart ==
    /\ diPc = "start"
    /\ IF life.closed
       THEN /\ diPc' = "failed"
            /\ UNCHANGED <<diRaw, diStable, diElapsed, stableHist>>
       ELSE /\ diRaw' = Norm(rawLevel)
            /\ diStable' = Norm(rawLevel)
            /\ diElapsed' = 0
            /\ stableHist' = StableHistAfter(Norm(rawLevel))
            /\ diPc' = "loop"
    /\ diRet' = NoRead
    /\ voteRet' = NoVote
    /\ UNCHANGED <<diV, diSleep>>
    /\ UNCHANGED <<lineVars, votePc, votes, voteCount, voteSleep, voteSeen>>
    /\ UNCHANGED <<actuatorVars, life, sensorVars>>

\* _loop: while not self._stop.is_set(), once the sleep of the previous
\* iteration is over
LoopCheck ==
    /\ diPc = "loop"
    /\ diSleep = 0
    /\ diPc' = IF life.stop THEN "done" ELSE "read"
    /\ diRet' = NoRead
    /\ voteRet' = NoVote
    /\ UNCHANGED <<diV, diRaw, diStable, diElapsed, diSleep, stableHist>>
    /\ UNCHANGED <<lineVars, votePc, votes, voteCount, voteSleep, voteSeen>>
    /\ UNCHANGED <<actuatorVars, life, sensorVars>>

\* _loop: v = self._read_norm() (a read of a closed line raises, which ends the
\* thread)
SampleRead ==
    /\ diPc = "read"
    /\ IF life.closed
       THEN diPc' = "failed" /\ UNCHANGED diV
       ELSE diPc' = "sampled" /\ diV' = Norm(rawLevel)
    /\ diRet' = NoRead
    /\ voteRet' = NoVote
    /\ UNCHANGED <<diRaw, diStable, diElapsed, diSleep, stableHist>>
    /\ UNCHANGED <<lineVars, votePc, votes, voteCount, voteSleep, voteSeen>>
    /\ UNCHANGED <<actuatorVars, life, sensorVars>>

\* SampleUpdate with self._last_change = now on every iteration
SampleUpdateAlwaysStamp ==
    /\ diPc = "sampled"
    /\ LET raw == IF diV # diRaw THEN diV ELSE diRaw
       IN  /\ diRaw' = raw
           /\ diElapsed' = 0
           /\ diStable' = IF WindowElapsed(0) THEN raw ELSE diStable
           /\ stableHist' = StableHistAfter(IF WindowElapsed(0) THEN raw ELSE diStable)
    /\ diSleep' = Ticks(SAMPLE_SLEEP_MS)
    /\ diPc' = "loop"
    /\ diRet' = NoRead
    /\ voteRet' = NoVote
    /\ UNCHANGED <<diV>>
    /\ UNCHANGED <<lineVars, votePc, votes, voteCount, voteSleep, voteSeen>>
    /\ UNCHANGED <<actuatorVars, life, sensorVars>>

\* _loop: now = time.monotonic(); with self._lock: track the change, let _stable
\* follow after the window; then time.sleep(0.01)
SampleUpdate ==
    /\ diPc = "sampled"
    /\ LET changed == diV # diRaw
           elapsed == IF changed THEN 0 ELSE diElapsed
           raw == IF changed THEN diV ELSE diRaw
           stable == IF WindowElapsed(elapsed) THEN raw ELSE diStable
       IN  /\ diRaw' = raw
           /\ diElapsed' = elapsed
           /\ diStable' = stable
           /\ stableHist' = StableHistAfter(stable)
    /\ diSleep' = Ticks(SAMPLE_SLEEP_MS)
    /\ diPc' = "loop"
    /\ diRet' = NoRead
    /\ voteRet' = NoVote
    /\ UNCHANGED <<diV>>
    /\ UNCHANGED <<lineVars, votePc, votes, voteCount, voteSleep, voteSeen>>
    /\ UNCHANGED <<actuatorVars, life, sensorVars>>

\* DebouncedInput.read(): with self._lock: return bool(self._stable)
DebouncedRead ==
    /\ diRet' = [done |-> TRUE, value |-> diStable]
    /\ voteRet' = NoVote
    /\ UNCHANGED <<diPc, diV, diRaw, diStable, diElapsed, diSleep, stableHist>>
    /\ UNCHANGED <<lineVars, votePc, votes, voteCount, voteSleep, voteSeen>>
    /\ UNCHANGED <<actuatorVars, life, sensorVars>>

\* DebouncedInput.close: self._stop.set(), then self._thread.join(timeout=0.5)
\* starts
JOIN_TIMEOUT_MS == 500

CloseCall ==
    /\ life.pc = "idle"
    /\ life' = [life EXCEPT !.stop = TRUE, !.joinLeft = Ticks(JOIN_TIMEOUT_MS), !.pc = "join"]
    /\ diRet' = NoRead
    /\ voteRet' = NoVote
    /\ UNCHANGED <<diPc, diV, diRaw, diStable, diElapsed, diSleep, stableHist>>
    /\ UNCHANGED <<lineVars, votePc, votes, voteCount, voteSleep, voteSeen>>
    /\ UNCHANGED <<actuatorVars, sensorVars>>

\* join returns: the thread has ended, or the timeout has run out (join does
\* not say which and close does not ask)
JoinReturn ==
    /\ life.pc = "join"
    /\ diPc \in {"done", "failed"} \/ life.joinLeft = 0
    /\ life' = [life EXCEPT !.pc = "release"]
    /\ diRet' = NoRead
    /\ voteRet' = NoVote
    /\ UNCHANGED <<diPc, diV, diRaw, diStable, diElapsed, diSleep, stableHist>>
    /\ UNCHANGED <<lineVars, votePc, votes, voteCount, voteSleep, voteSeen>>
    /\ UNCHANGED <<actuatorVars, sensorVars>>

\* self.gpio.close()
GpioClose ==
    /\ life.pc = "release"
    /\ life' = [life EXCEPT !.closed = TRUE, !.pc = "done"]
    /\ diRet' = NoRead
    /\ voteRet' = NoVote
    /\ UNCHANGED <<diPc, diV, diRaw, diStable, diElapsed, diSleep, stableHist>>
    /\ UNCHANGED <<lineVars, votePc, votes, voteCount, voteSleep, voteSeen>>
    /\ UNCHANGED <<actuatorVars, sensorVars>>

----------------------------------------------------------------------------
(* DIReader (src/main.py) *)

\* self.debounce_s / reads, in ticks
VoteSleepTicks == Ticks(Max(DI1_DEBOUNCE_MS, 0)) \div VOTE_READS

\* raw_level = 1 if votes >= 2 else 0
Majority(v) == v >= 2

\* DIReader.read() is called
VoteCall ==
    /\ votePc = "idle"
    /\ votePc' = "read"
    /\ votes' = 0
    /\ voteCount' = 0
    /\ voteSleep' = 0
    /\ voteSeen' = {steady}
    /\ voteRet' = NoVote
    /\ diRet' = NoRead
    /\ UNCHANGED <<lineVars, diPc, diV, diRaw, diStable, diElapsed, diSleep, stableHist>>
    /\ UNCHANGED <<actuatorVars, life, sensorVars>>

\* one turn of the loop: votes += self.read_raw(), then sleep a third of the window
VoteSample ==
    /\ votePc = "read"
    /\ voteSleep = 0
    /\ votes' = votes + (IF rawLevel THEN 1 ELSE 0)
    /\ voteCount' = voteCount + 1
    /\ voteSleep' = VoteSleepTicks
    /\ votePc' = IF voteCount + 1 = VOTE_READS THEN "sleep" ELSE "read"
    /\ voteRet' = NoVote
    /\ diRet' = NoRead
    /\ UNCHANGED <<voteSeen>>
    /\ UNCHANGED <<lineVars, diPc, diV, diRaw, diStable, diElapsed, diSleep, stableHist>>
    /\ UNCHANGED <<actuatorVars, life, sensorVars>>

\* after the last sleep: the majority, in logical terms
VoteReturn ==
    /\ votePc = "sleep"
    /\ voteSleep = 0
    /\ voteRet' = [done |-> TRUE, value |-> Norm(Majority(votes)),
                   seen |-> voteSeen, raw |-> rawLevel]
    /\ votePc' = "idle"
    /\ votes' = 0
    /\ voteCount' = 0
    /\ voteSeen' = {}
    /\ diRet' = NoRead
    /\ UNCHANGED <<voteSleep>>
    /\ UNCHANGED <<lineVars, diPc, diV, diRaw, diStable, diElapsed, diSleep, stableHist>>
    /\ UNCHANGED <<actuatorVars, life, sensorVars>>

----------------------------------------------------------------------------
(* Sensor pipeline: src/app/routers/sensor.py (the router package, impl "roof") *)
(* and src/main.py (impl "main")                                                *)

(* Bounds of the model *)

NumRequests == 1

NumSubscribers == 2

MaxTicks == 2

(* Program constants *)

INDOOR_ID == 1

OUTDOOR_ID == 2

Requests == 1..NumRequests

Subscribers == 1..NumSubscribers

Labels == {"indoor", "outdoor"}

UnitOf(l) == IF l = "indoor" THEN INDOOR_ID ELSE OUTDOOR_ID

NoEntry == [kind |-> "none", unit |-> 0]

\* pack: the entry of a unit that was read and decoded
Reading(l) == [kind |-> "reading", unit |-> UnitOf(l)]

\* pack of sensor.py: the entry of a unit whose read raised
ErrorEntry(l) == [kind |-> "error", unit |-> UnitOf(l)]

\* payload = {"ts": ..., "ok": True}
EmptyPayload == [ok |-> TRUE, error |-> FALSE, entries |-> [l \in Labels |-> NoEntry]]

\* only src/main.py has _modbus_lock; sensor.py calls the client with no lock
UsesModbusLock(i) == i = "main"

\* what the client returns for a request: the registers asked for, fewer
\* registers than the indices need, or an error response
Responses == {"regs", "short", "error"}

\* rr.isError() raises RuntimeError; to_humi_temp raises on too few registers
\* (ValueError in sensor.py, IndexError in main.py)
Decodes(rr) == rr = "regs"

\* the callers inside a request/response exchange on the serial line; 0 is the
\* poll loop
InExchange ==
    {c \in 0..NumRequests : IF c = 0 THEN poll.pc = "exchange" ELSE req.pc[c] = "exchange"}

NoCalc == [fn |-> "none", arg |-> <<>>, out |-> <<>>]

SensorInit ==
    /\ mb = [connected |-> FALSE, lock |-> {}]
    /\ req = [pc |-> [r \in Requests |-> "idle"], todo |-> [r \in Requests |-> <<>>],
              calc |-> NoCalc]
    /\ poll = [pc |-> "top", label |-> "indoor", payload |-> EmptyPayload,
               readOutcome |-> [l \in Labels |-> "none"], tick |-> 0, sinkWritten |-> {},
               rr |-> "none"]
    /\ hub = [clients |-> {}, conn |-> [s \in Subscribers |-> "new"], snap |-> {},
              stale |-> {}, ws |-> 0, lastTick |-> [s \in Subscribers |-> 0]]
    /\ shut = [stopSet |-> FALSE, cancelReq |-> FALSE, pc |-> "idle",
               sink |-> IF impl = "roof" THEN "open" ELSE "none",
               app |-> "idle"]

\* influx_write_env(ts_ms, label, temp_c, rh, dew_c): one write of the three
\* points of a label.  Neither _poll_loop nor sensor_poll_loop calls it, so no
\* step of the poll loop below uses this definition.
InfluxWriteEnv(l) == poll' = [poll EXCEPT !.sinkWritten = @ \cup {l}]

\* the head of the loop: while not _stop_event.is_set() (sensor.py), while True
\* (main.py); then a fresh payload
PollTop ==
    /\ poll.pc = "top"
    /\ IF impl = "roof" /\ shut.stopSet
       THEN /\ poll' = [poll EXCEPT !.pc = "done"]
            /\ UNCHANGED hub
       ELSE /\ poll' = [pc |-> "connect", label |-> "indoor", payload |-> EmptyPayload,
                        readOutcome |-> [l \in Labels |-> "none"],
                        tick |-> poll.tick + 1, sinkWritten |-> {}, rr |-> "none"]
            /\ hub' = [hub EXCEPT !.snap = {}, !.stale = {}]
    /\ UNCHANGED <<mb, req, shut>>
    /\ UNCHANGED <<actuatorVars, inputVars>>

\* the poll loop after pack(unit) of the label l has ended, with a reading
\* (good) or by an exception.  sensor.py: pack catches the exception and returns
\* an error entry; after the second pack, ok = False if an entry is an error.
\* main.py: one try around both packs; the exception skips what is left of
\* them, ok = False and payload["error"] is set.
PackEnds(l, good) ==
    LET outcome == [poll.readOutcome EXCEPT ![l] = IF good THEN "ok" ELSE "fail"]
        next == IF l = "outdoor" THEN "fanout" ELSE "connect"
    IN  IF impl = "roof"
        THEN LET entries == [poll.payload.entries EXCEPT
                                ![l] = IF good THEN Reading(l) ELSE ErrorEntry(l)]
                 failed == \E m \in Labels : entries[m].kind = "error"
             IN  [poll EXCEPT !.readOutcome = outcome,
                              !.payload.entries = entries,
                              !.payload.ok = IF l = "outdoor" /\ failed THEN FALSE ELSE @,
                              !.label = "outdoor",
                              !.pc = next]
        ELSE IF good
             THEN [poll EXCEPT !.readOutcome = outcome,
                               !.payload.entries[l] = Reading(l),
                               !.label = "outdoor",
                               !.pc = next]
             ELSE [poll EXCEPT !.readOutcome = outcome,
                               !.payload.ok = FALSE,
                               !.payload.error = TRUE,
                               !.pc = "fanout"]

\* ensure_connected of the poll loop's read_raw_regs: connect when the client is
\* not connected; a connect that fails raises
PollConnect ==
    /\ poll.pc = "connect"
    /\ UsesModbusLock(impl) => mb.lock = {}
    /\ \E up \in (IF mb.connected THEN {TRUE} ELSE BOOLEAN) :
          /\ mb' = [mb EXCEPT !.connected = up]
          /\ poll' = IF up THEN [poll EXCEPT !.pc = "request"]
                           ELSE PackEnds(poll.label, FALSE)
    /\ UNCHANGED <<req, hub, shut>>
    /\ UNCHANGED <<actuatorVars, inputVars>>

\* read_raw_regs: the request goes out on the serial line (main.py: inside
\* with _modbus_lock)
PollRequest ==
    /\ poll.pc = "request"
    /\ IF UsesModbusLock(impl)
       THEN mb.lock = {} /\ mb' = [mb EXCEPT !.lock = {0}]
       ELSE UNCHANGED mb
    /\ poll' = [poll EXCEPT !.pc = "exchange"]
    /\ UNCHANGED <<req, hub, shut>>
    /\ UNCHANGED <<actuatorVars, inputVars>>

\* read_raw_regs: the response (or the timeout) arrives; the rest of pack
PollResponse ==
    /\ poll.pc = "exchange"
    /\ mb' = [mb EXCEPT !.lock = @ \ {0}]
    /\ \E rr \in Responses :
          poll' = [PackEnds(poll.label, Decodes(rr)) EXCEPT !.rr = rr]
    /\ UNCHANGED <<req, hub, shut>>
    /\ UNCHANGED <<actuatorVars, inputVars>>

\* read_sensor_unit(unit_id) or read_sensor_both() starts in a worker thread
ReqCall(r) ==
    /\ req.pc[r] = "idle"
    /\ \E units \in {<<INDOOR_ID>>, <<OUTDOOR_ID>>, <<INDOOR_ID, OUTDOOR_ID>>} :
          req' = [req EXCEPT !.todo[r] = units, !.pc[r] = "connect"]
    /\ UNCHANGED <<mb, poll, hub, shut>>
    /\ UNCHANGED <<actuatorVars, inputVars>>

\* the requests after one read of the request r has ended (with a result or an
\* error entry): the next unit, or the response
ReqEnds(r) ==
    [req EXCEPT !.todo[r] = Tail(@),
                !.pc[r] = IF Len(req.todo[r]) > 1 THEN "connect" ELSE "idle"]

\* ensure_connected of a one-shot read
ReqConnect(r) ==
    /\ req.pc[r] = "connect"
    /\ UsesModbusLock(impl) => mb.lock = {}
    /\ \E up \in (IF mb.connected THEN {TRUE} ELSE BOOLEAN) :
          /\ mb' = [mb EXCEPT !.connected = up]
          /\ req' = IF up THEN [req EXCEPT !.pc[r] = "request"] ELSE ReqEnds(r)
    /\ UNCHANGED <<poll, hub, shut>>
    /\ UNCHANGED <<actuatorVars, inputVars>>

\* the request of a one-shot read goes out on the serial line
ReqRequest(r) ==
    /\ req.pc[r] = "request"
    /\ IF UsesModbusLock(impl)
       THEN mb.lock = {} /\ mb' = [mb EXCEPT !.lock = {r}]
       ELSE UNCHANGED mb
    /\ req' = [req EXCEPT !.pc[r] = "exchange"]
    /\ UNCHANGED <<poll, hub, shut>>
    /\ UNCHANGED <<actuatorVars, inputVars>>

\* the response of a one-shot read arrives
ReqResponse(r) ==
    /\ req.pc[r] = "exchange"
    /\ mb' = [mb EXCEPT !.lock = @ \ {r}]
    /\ req' = ReqEnds(r)
    /\ UNCHANGED <<poll, hub, shut>>
    /\ UNCHANGED <<actuatorVars, inputVars>>

----------------------------------------------------------------------------
(* The computations of a request: unit conversion, dew point, pulse duration, *)
(* poll delay.  A call leaves its arguments and its result in req.calc.       *)

\* longest register sequence a response of the model carries
MaxRegs == 3

TEMP_INDEX == 0

HUMI_INDEX == 1

SCALE_DIV == 10

DEFAULT_PULSE_MS == 800

MIN_POLL_MS == 100

\* dew point is defined for 0 < RH <= 100 (percent)
RH_MAX == 100

\* register values of the model: zero, 25.0 and 60.0 in tenths
RegValues == {0, 250, 600}

RegSeqs == UNION {[1..n -> RegValues] : n \in 0..MaxRegs}

\* temperatures and relative humidities, in tenths: below, at and above the
\* ends of the range 0 < RH <= 100
TempTenths == {-100, 0, 250}

RhTenths == {-10, 0, 1, 500, 10 * RH_MAX, 10 * RH_MAX + 1, 10 * RH_MAX + 10}

\* configured poll periods, ms
PollPeriods == {-1000, 0, 50, MIN_POLL_MS, 1000}

\* an Optional[int]: <<>> is None, <<v>> the value v
Optionals(vals) == {<<>>} \cup {<<v>> : v \in vals}

\* the ms of the request body (PulseRequest.ms, not validated) and of the query
\* (Query(None, ge=1, le=5000): a value out of range never reaches the handler)
BodyMs == Optionals({0, 1, 500, MAX_PULSE_MS_MAIN})

QueryMs == Optionals({1, 700, MAX_PULSE_MS_MAIN})

\* regs[i] / SCALE_DIV, in thousandths
Scaled(n) == (n * 1000) \div SCALE_DIV

\* a to_humi_temp that binds each value to the other field
ToHumiTempSwapped(i, regs) ==
    LET need == Max(HUMI_INDEX, TEMP_INDEX) + 1
    IN  IF Len(regs) < need
        THEN [err |-> "DataError", vals |-> <<>>]
        ELSE [err |-> "none",
              vals |-> <<Scaled(regs[TEMP_INDEX + 1]), Scaled(regs[HUMI_INDEX + 1])>>]

\* to_humi_temp(regs) -> (humi, temp).  sensor.py checks the length and raises
\* ValueError; main.py has no check: regs[HUMI_INDEX], then regs[TEMP_INDEX],
\* raise IndexError on a sequence that is too short.
ToHumiTemp(i, regs) ==
    LET need == Max(HUMI_INDEX, TEMP_INDEX) + 1
    IN  IF i = "roof"
        THEN IF Len(regs) < need
             THEN [err |-> "ValueError", vals |-> <<>>]
             ELSE [err |-> "none",
                   vals |-> <<Scaled(regs[HUMI_INDEX + 1]), Scaled(regs[TEMP_INDEX + 1])>>]
        ELSE IF Len(regs) < HUMI_INDEX + 1 \/ Len(regs) < TEMP_INDEX + 1
             THEN [err |-> "IndexError", vals |-> <<>>]
             ELSE [err |-> "none",
                   vals |-> <<Scaled(regs[HUMI_INDEX + 1]), Scaled(regs[TEMP_INDEX + 1])>>]

\* the dew point of the three sources, for a humidity rh in tenths of a percent:
\* "nan" or "number" (the Magnus value itself is not modelled).  sensor.py
\* dew_point_c: NaN if rh <= 0 or rh > 100.  main.py calc_dewpoint: NaN if
\* rh <= 0.  writer.py dewpoint_c: rh is clamped to 0.1..100, never NaN.
DewPoint(src, rh) ==
    CASE src = "roof" -> IF rh <= 0 \/ rh > 10 * RH_MAX THEN "nan" ELSE "number"
      [] src = "main" -> IF rh <= 0 THEN "nan" ELSE "number"
      [] src = "writer" -> "number"

\* Python's "x or y" on Optional[int]: None and 0 are falsy
Truthy(o) == o # <<>> /\ o[1] # 0

\* the pulse duration of an open/close command.  door_open / door_close:
\* ms or (body.ms if body and body.ms else None) or DEFAULT_PULSE_MS.
\* roof_open / roof_close: ms: int = Query(DEFAULT_PULSE_MS, ...), no body.
EffectiveMs(i, body, query) ==
    IF i = "roof"
    THEN IF query # <<>> THEN query[1] ELSE DEFAULT_PULSE_MS
    ELSE IF Truthy(query) THEN query[1]
         ELSE IF Truthy(body) THEN body[1]
         ELSE DEFAULT_PULSE_MS

\* the delay between two ticks for the configured POLL_MS, ms.  _poll_loop:
\* asyncio.sleep(max(POLL_MS, 100) / 1000); sensor_poll_loop:
\* asyncio.sleep(POLL_MS / 1000.0), and a sleep of 0 or less returns at once.
PollDelayMs(i, pollMs) ==
    IF i = "roof" THEN Max(pollMs, MIN_POLL_MS) ELSE Max(pollMs, 0)

\* a one-shot read or pack converts the registers of a response
ToHumiTempCall ==
    /\ \E regs \in RegSeqs :
          req' = [req EXCEPT !.calc = [fn |-> "to_humi_temp", arg |-> regs,
                                       out |-> ToHumiTemp(impl, regs)]]
    /\ UNCHANGED <<mb, poll, hub, shut>>
    /\ UNCHANGED <<actuatorVars, inputVars>>

\* a one-shot read or pack derives the dew point of a reading
DewPointCall ==
    /\ \E t \in TempTenths, rh \in RhTenths :
          req' = [req EXCEPT !.calc = [fn |-> "dew_point", arg |-> <<t, rh>>,
                                       out |-> DewPoint(impl, rh)]]
    /\ UNCHANGED <<mb, poll, hub, shut>>
    /\ UNCHANGED <<actuatorVars, inputVars>>

\* the standalone writer derives the dew point of a reading that has none
DewPointWriterCall ==
    /\ \E t \in TempTenths, rh \in RhTenths :
          req' = [req EXCEPT !.calc = [fn |-> "dew_point", arg |-> <<t, rh>>,
                                       out |-> DewPoint("writer", rh)]]
    /\ UNCHANGED <<mb, poll, hub, shut>>
    /\ UNCHANGED <<actuatorVars, inputVars>>

\* an open/close command resolves its pulse duration
EffectiveMsCall ==
    /\ \E body \in BodyMs, query \in QueryMs :
          req' = [req EXCEPT !.calc = [fn |-> "effective_ms", arg |-> <<body, query>>,
                                       out |-> EffectiveMs(impl, body, query)]]
    /\ UNCHANGED <<mb, poll, hub, shut>>
    /\ UNCHANGED <<actuatorVars, inputVars>>

\* the poll loop computes the delay of its sleep
PollDelayCall ==
    /\ \E p \in PollPeriods :
          req' = [req EXCEPT !.calc = [fn |-> "poll_delay", arg |-> p,
                                       out |-> PollDelayMs(impl, p)]]
    /\ UNCHANGED <<mb, poll, hub, shut>>
    /\ UNCHANGED <<actuatorVars, inputVars>>

----------------------------------------------------------------------------
(* The standalone writer (src/writer/writer.py): main() fetches the readings *)
(* of the API, writes them to the sink and sleeps, for ever.  Its state is   *)
(* kept in req.calc: [fn |-> "writer", pc, pollSec, points, backoff, waited, *)
(* fails].  pc: "fetch", "write", "reset", "sleep", "wait", "double" or      *)
(* "exit"; backoff, waited and pollSec in seconds; points: the points of     *)
(* this iteration; waited: history, the duration of the last sleep; fails:   *)
(* history, the handler runs since the last reset, up to MaxFails.           *)

MaxFails == 6

BACKOFF_START == 1

BACKOFF_MAX == 30

\* POLL_SEC of the environment; time.sleep raises ValueError for a negative one
PollSecs == {-1, 1}

\* a reading per location, or none
MaxPoints == 2

RECURSIVE Pow2(_)
Pow2(n) == IF n = 0 THEN 1 ELSE 2 * Pow2(n - 1)

\* backoff = min(backoff * 2.0, 30.0), without the bound
BackoffUncapped(b) == b * 2

\* backoff = min(backoff * 2.0, 30.0)
BackoffAfter(b) == Min(b * 2, BACKOFF_MAX)

WriterAt(p) == req.calc.fn = "writer" /\ req.calc.pc = p

\* main() up to the loop: SystemExit without a token, else backoff = 1.0
WriterStart ==
    /\ req.calc.fn = "none"
    /\ \E token \in BOOLEAN, ps \in PollSecs :
          req' = [req EXCEPT !.calc =
                     [fn |-> "writer", pc |-> IF token THEN "fetch" ELSE "exit",
                      pollSec |-> ps, points |-> 0, backoff |-> BACKOFF_START,
                      waited |-> 0, fails |-> 0]]
    /\ UNCHANGED <<mb, poll, hub, shut>>
    /\ UNCHANGED <<actuatorVars, inputVars>>

\* fetch_sensor() and the points of its answer: the request or the handling of
\* the answer raises, or there are n points
WriterFetch ==
    /\ WriterAt("fetch")
    /\ \/ req' = [req EXCEPT !.calc.pc = "wait", !.calc.points = 0]
       \/ \E n \in 0..MaxPoints :
             req' = [req EXCEPT !.calc.points = n,
                                !.calc.pc = IF n > 0 THEN "write" ELSE "reset"]
    /\ UNCHANGED <<mb, poll, hub, shut>>
    /\ UNCHANGED <<actuatorVars, inputVars>>

\* write_api.write(...): returns or raises
WriterWrite ==
    /\ WriterAt("write")
    /\ \E ok \in BOOLEAN :
          req' = [req EXCEPT !.calc.pc = IF ok THEN "reset" ELSE "wait"]
    /\ UNCHANGED <<mb, poll, hub, shut>>
    /\ UNCHANGED <<actuatorVars, inputVars>>

\* backoff = 1.0
WriterReset ==
    /\ WriterAt("reset")
    /\ req' = [req EXCEPT !.calc.backoff = BACKOFF_START, !.calc.fails = 0,
                          !.calc.pc = "sleep"]
    /\ UNCHANGED <<mb, poll, hub, shut>>
    /\ UNCHANGED <<actuatorVars, inputVars>>

\* time.sleep(POLL_SEC), still inside the try
WriterSleep ==
    /\ WriterAt("sleep")
    /\ req' = IF req.calc.pollSec < 0
              THEN [req EXCEPT !.calc.pc = "wait"]
              ELSE [req EXCEPT !.calc.waited = req.calc.pollSec, !.calc.pc = "fetch"]
    /\ UNCHANGED <<mb, poll, hub, shut>>
    /\ UNCHANGED <<actuatorVars, inputVars>>

\* except Exception: time.sleep(backoff)
WriterWait ==
    /\ WriterAt("wait")
    /\ req' = [req EXCEPT !.calc.waited = req.calc.backoff, !.calc.pc = "double"]
    /\ UNCHANGED <<mb, poll, hub, shut>>
    /\ UNCHANGED <<actuatorVars, inputVars>>

\* backoff = min(backoff * 2.0, 30.0), and round the loop
WriterDouble ==
    /\ WriterAt("double")
    /\ req' = [req EXCEPT !.calc.backoff = BackoffAfter(@),
                          !.calc.fails = Min(@ + 1, MaxFails),
                          !.calc.pc = "fetch"]
    /\ UNCHANGED <<mb, poll, hub, shut>>
    /\ UNCHANGED <<actuatorVars, inputVars>>

----------------------------------------------------------------------------
(* Broadcast: the fan-out of the poll loop, the subscribers, the shutdown *)

\* the subscribers the fan-out of this tick has already tried
Visited == {s \in Subscribers : hub.lastTick[s] = poll.tick} \cup hub.stale

\* the other tasks of the event loop run only while the poll loop is suspended
\* in an await (a send or its sleep) or has ended
EventLoopFree == poll.pc \in {"send", "sleep", "done", "cancelled", "crashed"}

\* the fan-out starts: sensor.py iterates over list(_ws_clients), main.py over
\* ws_clients itself
PollFanoutStart ==
    /\ poll.pc = "fanout"
    /\ hub' = [hub EXCEPT !.snap = hub.clients]
    /\ poll' = [poll EXCEPT !.pc = "iter"]
    /\ UNCHANGED <<mb, req, shut>>
    /\ UNCHANGED <<actuatorVars, inputVars>>

\* the next subscriber of the for loop.  sensor.py: the next element of the
\* copy.  main.py: the set iterator raises RuntimeError when the size of the set
\* differs from its size when the loop started; when the set was changed and has
\* its old size again, the iterator yields an element not yet visited or ends
\* (sets of the sizes of this model are never rebuilt, so none is yielded twice).
\* Nothing catches the RuntimeError: it ends the poll task.
PollNext ==
    /\ poll.pc = "iter"
    /\ IF impl = "main" /\ Cardinality(hub.clients) # Cardinality(hub.snap)
       THEN poll' = [poll EXCEPT !.pc = "crashed"] /\ hub' = [hub EXCEPT !.ws = 0]
       ELSE LET from == IF impl = "main" THEN hub.clients ELSE hub.snap
                early == impl = "main" /\ hub.clients # hub.snap
            IN  \/ /\ from \ Visited = {} \/ early
                   /\ poll' = [poll EXCEPT !.pc = "prune"]
                   /\ hub' = [hub EXCEPT !.ws = 0]
                \/ \E s \in from \ Visited :
                      /\ poll' = [poll EXCEPT !.pc = "send"]
                      /\ hub' = [hub EXCEPT !.ws = s]
    /\ UNCHANGED <<mb, req, shut>>
    /\ UNCHANGED <<actuatorVars, inputVars>>

\* await ws.send_json(payload) returns
SendOk ==
    /\ poll.pc = "send"
    /\ ~shut.cancelReq
    /\ hub.conn[hub.ws] = "open"
    /\ hub' = [hub EXCEPT !.lastTick[hub.ws] = poll.tick]
    /\ poll' = [poll EXCEPT !.pc = "iter"]
    /\ UNCHANGED <<mb, req, shut>>
    /\ UNCHANGED <<actuatorVars, inputVars>>

\* await ws.send_json(payload) raises: stale.append(ws)
SendFail ==
    /\ poll.pc = "send"
    /\ ~shut.cancelReq
    /\ hub.conn[hub.ws] # "open"
    /\ hub' = [hub EXCEPT !.stale = @ \cup {hub.ws}]
    /\ poll' = [poll EXCEPT !.pc = "iter"]
    /\ UNCHANGED <<mb, req, shut>>
    /\ UNCHANGED <<actuatorVars, inputVars>>

\* for ws in stale: _ws_clients.discard(ws); then the loop goes to sleep
PollPrune ==
    /\ poll.pc = "prune"
    /\ hub' = [hub EXCEPT !.clients = @ \ hub.stale]
    /\ poll' = [poll EXCEPT !.pc = "sleep"]
    /\ UNCHANGED <<mb, req, shut>>
    /\ UNCHANGED <<actuatorVars, inputVars>>

\* await asyncio.sleep(...) returns (the model stops after MaxTicks ticks)
PollWake ==
    /\ poll.pc = "sleep"
    /\ ~shut.cancelReq
    /\ poll.tick < MaxTicks \/ (impl = "roof" /\ shut.stopSet)
    /\ poll' = [poll EXCEPT !.pc = "top"]
    /\ UNCHANGED <<mb, req, hub, shut>>
    /\ UNCHANGED <<actuatorVars, inputVars>>

\* the cancelled task is resumed: CancelledError is raised at its await, which
\* the except Exception around the send does not catch
PollCancelled ==
    /\ shut.cancelReq
    /\ poll.pc \in {"send", "sleep"}
    /\ poll' = [poll EXCEPT !.pc = "cancelled"]
    /\ shut' = [shut EXCEPT !.cancelReq = FALSE]
    /\ UNCHANGED <<mb, req, hub>>
    /\ UNCHANGED <<actuatorVars, inputVars>>

\* ws_endpoint / ws_sensor: await ws.accept(); the set gets the subscriber
Connect(s) ==
    /\ EventLoopFree
    /\ hub.conn[s] = "new"
    /\ hub' = [hub EXCEPT !.conn[s] = "open", !.clients = @ \cup {s}]
    /\ UNCHANGED <<mb, req, poll, shut>>
    /\ UNCHANGED <<actuatorVars, inputVars>>

\* the peer of a subscriber goes away: from now on a send to it raises
PeerGone(s) ==
    /\ hub.conn[s] = "open"
    /\ hub' = [hub EXCEPT !.conn[s] = "gone"]
    /\ UNCHANGED <<mb, req, poll, shut>>
    /\ UNCHANGED <<actuatorVars, inputVars>>

\* ws_endpoint / ws_sensor: receive_text raises, finally: discard(ws)
Disconnect(s) ==
    /\ EventLoopFree
    /\ hub.conn[s] = "gone"
    /\ hub' = [hub EXCEPT !.conn[s] = "closed", !.clients = @ \ {s}]
    /\ UNCHANGED <<mb, req, poll, shut>>
    /\ UNCHANGED <<actuatorVars, inputVars>>

\* stop_sensor_tasks (sensor.py): _stop_event.set(), then await asyncio.sleep(0)
StopSignal ==
    /\ impl = "roof"
    /\ EventLoopFree
    /\ shut.pc = "idle"
    /\ shut' = [shut EXCEPT !.stopSet = TRUE, !.pc = "yield", !.app = "sensors"]
    /\ UNCHANGED <<mb, req, poll, hub>>
    /\ UNCHANGED <<actuatorVars, inputVars>>

\* stop_sensor_tasks: _poll_task.cancel(), which does nothing to a task that
\* has ended; then await _poll_task
StopCancel ==
    /\ EventLoopFree
    /\ shut.pc = "yield"
    /\ shut' = [shut EXCEPT !.cancelReq = (poll.pc \in {"send", "sleep"}), !.pc = "await"]
    /\ UNCHANGED <<mb, req, poll, hub>>
    /\ UNCHANGED <<actuatorVars, inputVars>>

\* influx_close(): flush and close, each inside its own try/except; the
\* variables are set to None whatever happened
InfluxClose(sink) == IF sink = "none" THEN "none" ELSE "closed"

\* a stop_sensor_tasks whose cleanup follows the try block instead of being its
\* finally clause: the CancelledError of the await skips it
StopReleaseAfterTry ==
    /\ shut.pc = "await"
    /\ poll.pc \in {"done", "cancelled"}
    /\ IF poll.pc = "cancelled"
       THEN /\ shut' = [shut EXCEPT !.pc = "done", !.app = "raised"]
            /\ UNCHANGED mb
       ELSE /\ mb' = [mb EXCEPT !.connected = FALSE]
            /\ shut' = [shut EXCEPT !.pc = "done", !.sink = InfluxClose(@), !.app = "roof"]
    /\ UNCHANGED <<req, poll, hub>>
    /\ UNCHANGED <<actuatorVars, inputVars>>

\* stop_sensor_tasks: await _poll_task ends.  A task that returned gives None; a
\* cancelled task raises CancelledError in the awaiter, which "except Exception"
\* does not catch.  Either way the finally clause runs: client.close() and
\* influx_close(); then the CancelledError, if any, leaves stop_sensor_tasks
\* and, nothing catching it there, _shutdown (src/app/main.py:30), whose next
\* statement is close_roof().
StopRelease ==
    /\ shut.pc = "await"
    /\ poll.pc \in {"done", "cancelled"}
    /\ mb' = [mb EXCEPT !.connected = FALSE]
    /\ shut' = [shut EXCEPT !.pc = "done", !.sink = InfluxClose(@),
                            !.app = IF poll.pc = "cancelled" THEN "raised" ELSE "roof"]
    /\ UNCHANGED <<req, poll, hub>>
    /\ UNCHANGED <<actuatorVars, inputVars>>

\* shutdown_event (main.py): modbus.close(), nothing else
ShutdownEvent ==
    /\ impl = "main"
    /\ EventLoopFree
    /\ shut.pc = "idle"
    /\ mb' = [mb EXCEPT !.connected = FALSE]
    /\ shut' = [shut EXCEPT !.pc = "done", !.app = "returned"]
    /\ UNCHANGED <<req, poll, hub>>
    /\ UNCHANGED <<actuatorVars, inputVars>>

\* close_roof (roof.py:143-147), called by _shutdown once stop_sensor_tasks has
\* returned: di1.close()
CloseRoofInput ==
    /\ shut.app = "roof"
    /\ CloseCall

\* close_roof (roof.py:148-150): door.close(), that is stop() (with self.lock:
\* all_low(), state = "idle") and then the release of both output lines; the
\* handler returns
CloseRoofDoor ==
    /\ shut.app = "roof"
    /\ life.pc = "done"
    /\ lock = 0
    /\ line' = [l \in Targets |-> FALSE]
    /\ state' = "idle"
    /\ shut' = [shut EXCEPT !.app = "closed"]
    /\ UNCHANGED <<impl, lock, pc, op, ret, held, cancelled>>
    /\ UNCHANGED <<mb, req, poll, hub>>
    /\ UNCHANGED inputVars

----------------------------------------------------------------------------
(* Specifications *)

ActuatorStep(t) ==
    \/ PulseReject(t)
    \/ PulseCall(t)
    \/ HoldCall(t)
    \/ StopCall(t)
    \/ StatusCall(t)
    \/ Acquire(t)
    \/ AllLowOpen(t)
    \/ AllLowClose(t)
    \/ PulseSetState(t)
    \/ PulseWrite(t)
    \/ SleepDone(t)
    \/ CleanupIdle(t)
    \/ HoldWrite(t)
    \/ HoldSetState(t)
    \/ StopIdle(t)
    \/ StatusRead(t)

NextActuator == \E t \in Threads : ActuatorStep(t)

NextActuatorFaults == \E t \in Threads : ActuatorStep(t) \/ WriteFails(t)

SamplerStep == LoopStart \/ LoopCheck \/ SampleRead \/ SampleUpdate

NextSampler == Tick \/ RawFlip \/ SamplerStep \/ DebouncedRead

NextSamplerLoop == Tick \/ RawFlip \/ SamplerStep

NextClose == Tick \/ SamplerStep \/ CloseCall \/ JoinReturn \/ GpioClose

NextVote == Tick \/ RawFlip \/ VoteCall \/ VoteSample \/ VoteReturn

\* the actuator specifications leave the limit input at rest, the input
\* specifications leave the actuator at rest
InitActuator ==
    /\ ActuatorInit(Impls)
    /\ rawLevel = FALSE /\ rawAge = DebounceTicks /\ steady = FALSE /\ activeHigh = TRUE
    /\ SamplerInit
    /\ VoteInit
    /\ LifeInit
    /\ SensorInit

InitSampler ==
    ActuatorInit({"roof"}) /\ LineInit /\ SamplerInit /\ VoteInit /\ LifeInit /\ SensorInit

InitVote ==
    ActuatorInit({"main"}) /\ LineInit /\ SamplerInit /\ VoteInit /\ LifeInit /\ SensorInit

\* the sensor specifications leave the actuator and the limit input at rest
InitSensor == InitActuator

\* the poll loop up to its fan-out
PollReadStep == PollTop \/ PollConnect \/ PollRequest \/ PollResponse \/ PollFanoutStart

RequestStep(r) == ReqCall(r) \/ ReqConnect(r) \/ ReqRequest(r) \/ ReqResponse(r)

NextTransport ==
    \/ PollReadStep \/ PollNext \/ PollPrune \/ PollWake
    \/ \E r \in Requests : RequestStep(r)

SubscriberStep(s) == Connect(s) \/ PeerGone(s) \/ Disconnect(s)

ShutdownStep == StopSignal \/ StopCancel \/ StopRelease \/ ShutdownEvent

NextPoll ==
    \/ PollReadStep \/ PollNext \/ SendOk \/ SendFail \/ PollPrune \/ PollWake
    \/ PollCancelled
    \/ \E s \in Subscribers : SubscriberStep(s)
    \/ ShutdownStep

\* the limit input of either service: the sampler and read() of the router
\* package, the voting read() of the single-file service
NextLimit ==
    \/ Tick \/ RawFlip
    \/ impl = "roof" /\ (SamplerStep \/ DebouncedRead)
    \/ impl = "main" /\ (VoteCall \/ VoteSample \/ VoteReturn)

InitLimit ==
    ActuatorInit(Impls) /\ LineInit /\ SamplerInit /\ VoteInit /\ LifeInit /\ SensorInit

\* the actuator with lines that never fail
SpecActuator == InitActuator /\ [][NextActuator]_vars

\* the actuator with line writes that may raise
SpecActuatorFaults == InitActuator /\ [][NextActuatorFaults]_vars

\* the limit input of the router package: the line, the clock and the sampler
SpecSampler == InitSampler /\ [][NextSampler]_vars

\* the limit input of the single-file service: the line, the clock and one reader
SpecVote == InitVote /\ [][NextVote]_vars

\* the sampler thread is scheduled again and again and time passes
SamplerFairness ==
    /\ WF_vars(Tick)
    /\ WF_vars(LoopStart) /\ WF_vars(LoopCheck)
    /\ WF_vars(SampleRead) /\ WF_vars(SampleUpdate)

\* the limit input of the router package, wired active-high, with a sampler that
\* keeps running
InitSamplerLive == InitSampler /\ activeHigh = TRUE

SpecSamplerLive == InitSamplerLive /\ [][NextSamplerLoop]_vars /\ SamplerFairness

\* the limit input of both services with a line that changes at any time
SpecLimit == InitLimit /\ [][NextLimit]_vars

\* the limit input of the router package while it is closed
SpecClose == InitSampler /\ [][NextClose]_vars

\* the serial line: the poll loop (with no subscriber) and the one-shot requests
SpecTransport == InitSensor /\ [][NextTransport]_vars

\* the poll loop with its subscribers and the shutdown of the service
SpecPoll == InitSensor /\ [][NextPoll]_vars

\* the shutdown of the router package's application: the poll loop (with no
\* subscriber), the sampler and the clock, and _shutdown
NextShutdown ==
    \/ PollReadStep \/ PollNext \/ PollPrune \/ PollWake \/ PollCancelled
    \/ Tick \/ SamplerStep
    \/ StopSignal \/ StopCancel \/ StopRelease
    \/ CloseRoofInput \/ JoinReturn \/ GpioClose \/ CloseRoofDoor

SpecShutdown == InitSampler /\ [][NextShutdown]_vars

NextCalc ==
    \/ ToHumiTempCall \/ DewPointCall \/ DewPointWriterCall
    \/ EffectiveMsCall \/ PollDelayCall

\* the computations of the requests, each on every input of the model
SpecCalc == InitSensor /\ [][NextCalc]_vars

NextWriter ==
    \/ WriterStart \/ WriterFetch \/ WriterWrite \/ WriterReset
    \/ WriterSleep \/ WriterWait \/ WriterDouble

\* the standalone writer
SpecWriter == InitSensor /\ [][NextWriter]_vars

----------------------------------------------------------------------------
(* Properties of the actuator *)

BothLow(r) == ~r.open /\ ~r.close

\* C1: in every reachable state, under any interleaving of pulse, hold and stop
\* calls (also when line writes fail), at most one of OPEN and CLOSE is high.
C1_MutualExclusion == ~(line["open"] /\ line["close"])

\* C1 witness: a hold of CLOSE has asserted its line while a pulse of OPEN is
\* still sleeping
C1_Witness ==
    \E t, u \in Threads :
        /\ pc[t] = "sleep" /\ op[t].target = "open"
        /\ pc[u] = "h_state" /\ op[u].target = "close"
        /\ line["close"] /\ ~line["open"]

\* C2: while a pulse is in progress (from the assertion of its line until its
\* cleanup has run) no other pulse or hold is inside its locked section, writing
\* lines or state.
C2_PulseExclusive ==
    \A t, u \in Threads :
        (t # u /\ pc[t] \in PulseInProgressPcs)
            => ~(op[u].kind \in {"pulse", "hold"} /\ pc[u] \in LockedPcs)

\* C3: whenever pulse ends for an accepted duration, on any exit path, both
\* lines are low and the state is idle at that moment.
C3_PulseEndsIdle ==
    (ret.kind = "pulse" /\ ret.outcome # "ValueError")
        => (BothLow(ret) /\ ret.state = "idle")

\* C4: once hold(target) has completed and no later stop, hold or pulse call has
\* been made, the target line is high, the other line low and the state is the
\* holding state of the target.
C4_HoldPersists ==
    held # "none"
        => /\ line[held]
           /\ ~line[OtherLine(held)]
           /\ state = HoldState(impl, held)

\* C5: the cleanup of a pulse that was sleeping when stop() returned changes
\* neither a line nor the state (whatever it finds was set after the stop).
C5_CancelledPulseInert ==
    [][\A t \in Threads :
          (cancelled[t] /\ pc[t] \in {"c_low_open", "c_low_close", "c_idle"}
              /\ pc'[t] # pc[t])
            => (line' = line /\ state' = state)]_vars

\* C6: from any state and under any interleaving, whenever stop ends both lines
\* are low and the state is idle.
C6_StopEndsIdle ==
    ret.kind = "stop" => (BothLow(ret) /\ ret.state = "idle")

\* C7: a pulse or hold in which a line write failed ends with both lines low
\* and the state idle.
C7_FailSafe ==
    (ret.kind \in {"pulse", "hold"} /\ ret.outcome = "GPIOError")
        => (BothLow(ret) /\ ret.state = "idle")

\* C8: a pulse whose duration is outside 1..MAX_PULSE_MS is never accepted, and
\* the step that rejects it writes no line, leaves the state and the lock alone
\* and moves no thread.
C8_InvalidPulseRejected ==
    [][/\ \A t \in Threads :
             (op'[t].kind = "pulse")
                 => (1 <= op'[t].ms /\ op'[t].ms <= MaxPulseMs(impl))
       /\ (ret'.outcome = "ValueError")
             => (/\ ~(1 <= ret'.ms /\ ret'.ms <= MaxPulseMs(impl))
                 /\ line' = line /\ state' = state /\ lock' = lock /\ pc' = pc)
      ]_vars

\* C8 witness: a pulse above the ceiling was rejected while a line was held high
C8_Witness ==
    /\ ret.kind = "pulse" /\ ret.outcome = "ValueError"
    /\ ret.ms > MaxPulseMs(impl)
    /\ state = HoldState(impl, "open") /\ line["open"]

\* C9 as stated: a status call never has to wait, whatever the other threads do.
C9_StatusNeverWaits ==
    /\ \A t \in Threads : pc[t] = "q_lock" => lock = 0
    /\ ret.kind = "status" => ret.state \in ActuatorStates(impl)

\* C9 amended: status waits for nothing but the actuator lock, which only
\* DoorController.status takes and which is held only across the line writes of
\* an operation, never across a pulse's sleep; it returns one of the five states.
C9_StatusWaitsOnlyForWrites ==
    /\ \A t \in Threads :
          pc[t] = "q_lock" => (StatusTakesLock(impl) /\ (lock # 0 => pc[lock] \in LockedPcs))
    /\ \A u \in Threads : pc[u] \in {"sleep", "c_lock"} => lock # u
    /\ ret.kind = "status" => (ret.outcome = "ok" /\ ret.state \in ActuatorStates(impl))

\* C9 witness: DoorController.status returned "opening" while the pulse slept
C9_Witness ==
    /\ impl = "roof"
    /\ ret.kind = "status" /\ ret.state = "opening" /\ ret.open
    /\ \E u \in Threads : pc[u] = "sleep"

\* C29: whenever no thread holds the actuator lock the recorded state matches
\* the lines: idle with both low, opening or holding open with OPEN high and
\* CLOSE low, closing or holding close with CLOSE high and OPEN low.
C29_StateMatchesLines ==
    lock = 0
        => /\ state = "idle" => (~line["open"] /\ ~line["close"])
           /\ state \in {"opening", HoldState(impl, "open")}
                 => (line["open"] /\ ~line["close"])
           /\ state \in {"closing", HoldState(impl, "close")}
                 => (line["close"] /\ ~line["open"])

----------------------------------------------------------------------------
(* Properties of the limit input *)

\* C10: a level change of the line that lasts less than the debounce window and
\* has reverted does not change what read() returns: (DIReader) a read during
\* which the line kept no other level than the present one for a whole window
\* returns the present level; (DebouncedInput) _stable changes only to a level
\* the line has kept for a whole window.
C10_GlitchRejected ==
    [][/\ (voteRet'.done /\ voteRet'.seen = {voteRet'.raw})
             => voteRet'.value = Norm(voteRet'.raw)
       /\ (diPc = "sampled" /\ diStable' # diStable)
             => (rawAge >= DebounceTicks /\ diStable' = Norm(rawLevel))
      ]_vars

\* C11: a level the line takes and keeps is eventually the stable level, which
\* is what read() returns, provided the sampler keeps running: whenever the line
\* has kept its level for a debounce window, _stable becomes the logical value
\* of that level, unless the line changes again first.
C11_SustainedChangeAdopted ==
    (rawAge >= DebounceTicks)
        ~> (rawAge < DebounceTicks \/ diStable = Norm(rawLevel))

\* C11 witness: the sampler has just adopted, in place of another level, the
\* level the line has kept for a whole window
C11_Witness ==
    /\ diStable = Norm(rawLevel)
    /\ rawAge >= DebounceTicks
    /\ stableHist.age = 0 /\ diSleep = Ticks(SAMPLE_SLEEP_MS)

\* C12: two successive changes of _stable, the value read() returns, are at
\* least one debounce window apart, whatever the line does.
C12_NoFastFlicker == stableHist.gap < 0 \/ stableHist.gap >= DebounceTicks

\* C12 witness: _stable has just changed for at least the second time
C12_Witness == stableHist.gap >= DebounceTicks /\ stableHist.age = 0 /\ diPc = "loop"

\* C13: when the line of the debounced input has been released the sampler
\* thread has ended, so that it never reads the closed line.
C13_SamplerStoppedBeforeRelease == life.closed => diPc = "done"

\* C26: what read() returns is in logical terms: every sample is the electrical
\* level of the line if the input is active-high and its negation if not, the
\* debounced value is made of such samples only, and read() returns it
\* (DebouncedInput: _stable; DIReader: the majority of its samples).
C26_ReadIsLogical ==
    [][/\ (diPc = "read" /\ diPc' = "sampled") => (diV' <=> (activeHigh <=> rawLevel))
       /\ (diPc = "start" /\ diPc' = "loop")
              => ((diRaw' <=> (activeHigh <=> rawLevel)) /\ diStable' = diRaw')
       /\ (diPc = "sampled" /\ diRaw' # diRaw) => diRaw' = diV
       /\ diStable' # diStable => diStable' = diRaw'
       /\ diRet'.done => diRet'.value = diStable'
       /\ votes' > votes => rawLevel
       /\ voteRet'.done => (voteRet'.value <=> (activeHigh <=> Majority(votes)))
      ]_vars

\* an active-low input whose line has kept its level for a window and whose
\* sampler has adopted it: read() returns the negation of the level
C26_Witness ==
    /\ impl = "roof" /\ ~activeHigh
    /\ diRet.done /\ diRet.value = ~rawLevel
    /\ rawAge = DebounceTicks /\ stableHist.age >= 0 /\ diRaw = diStable

----------------------------------------------------------------------------
(* Properties of the sensor pipeline *)

\* C14: at most one request/response exchange is in progress on the shared
\* serial line at any time, whoever issued it (the poll loop or a one-shot
\* request) and whatever unit it addresses.
C14_OneExchangeAtATime == Cardinality(InExchange) <= 1

\* C15: when the payload of a tick is complete every unit has been read, the
\* payload holds under each label the reading of its unit if the read succeeded
\* and an error entry if it failed, and ok is true exactly if no read failed.
C15_PerUnitIsolation ==
    poll.pc = "fanout"
        => /\ \A l \in Labels :
                /\ poll.readOutcome[l] # "none"
                /\ poll.readOutcome[l] = "ok" => poll.payload.entries[l] = Reading(l)
                /\ poll.readOutcome[l] = "fail" => poll.payload.entries[l] = ErrorEntry(l)
           /\ poll.payload.ok = (\A l \in Labels : poll.readOutcome[l] = "ok")

\* C16: when a tick is over, the reading of every unit whose read succeeded in
\* the tick has been handed to the time-series sink under its label.
C16_ReadingsReachSink ==
    poll.pc = "sleep"
        => \A l \in Labels : poll.readOutcome[l] = "ok" => l \in poll.sinkWritten

\* C17: when the fan-out of a tick in which a send failed is over, every other
\* subscriber that was in the set has been sent the payload of the tick, and at
\* the end of the tick the subscribers whose send failed are out of the set.
C17_FailedPrunedOthersServed ==
    (hub.stale # {} /\ poll.pc \in {"prune", "sleep", "crashed"})
        => /\ \A s \in hub.snap \ hub.stale : hub.lastTick[s] = poll.tick
           /\ poll.pc = "sleep" => hub.clients \cap hub.stale = {}

\* C18: the fan-out never fails: no connect or disconnect during a send ends
\* the poll task.
C18_FanoutSurvivesSetChanges == poll.pc # "crashed"

\* C19: no subscriber is sent the payload of a tick twice or after that of a
\* later tick, and when the fan-out of a tick is over every subscriber that was
\* in the set when it started has been sent to, once.
C19_OncePerTickInOrder ==
    [][/\ (poll.pc = "send" /\ hub.lastTick' # hub.lastTick)
              => hub.lastTick[hub.ws] < poll.tick
       /\ (poll'.pc \in {"prune", "crashed"}) => (hub'.snap \subseteq Visited')
      ]_vars

\* C20: once the shutdown handler has started no tick starts, and when it has
\* ended the poll loop has ended: it reads no sensor and sends no payload.
C20_NoTickAfterStop ==
    [][/\ shut.pc # "idle" => poll'.tick = poll.tick
       /\ shut'.pc = "done" => poll'.pc \in {"done", "cancelled"}
      ]_vars

\* C21: the step that ends the stopping of the sensor tasks leaves the serial
\* transport closed and the time-series sink closed, whether the awaited poll
\* task had returned or had been cancelled (the await then raises).
C21_StopClosesSinkAndTransport ==
    [][(shut.pc # "done" /\ shut'.pc = "done")
          => (~mb'.connected /\ shut'.sink # "open")]_vars

\* the poll task was cancelled in a tick that had read a unit over the
\* transport, the await raised, and the sink and the transport are closed
C21_Witness ==
    /\ shut.pc = "done" /\ shut.app = "raised" /\ poll.pc = "cancelled"
    /\ \E l \in Labels : poll.readOutcome[l] = "ok"
    /\ shut.sink = "closed" /\ ~mb.connected

----------------------------------------------------------------------------
(* Properties of the command endpoints *)

\* C22: a pulse that an open or close command triggered and that ended by a
\* failure was not answered ok to the caller of the command, and the failure
\* ended neither the debounce sampler nor the poll loop.
C22_PulseFailureReported ==
    (ret.kind = "pulse" /\ ret.outcome \notin {"none", "ok"})
        => /\ CommandAnswer(impl, ret.kind, ret.outcome) # "ok"
           /\ diPc # "failed" /\ poll.pc # "crashed"

----------------------------------------------------------------------------
(* Properties of the computations *)

\* C23: the dew point of a reading is the undefined sentinel exactly when its
\* humidity is outside 0 < RH <= 100; the reading is produced either way.
C23_DewPointSentinel ==
    req.calc.fn = "dew_point"
        => LET rh == req.calc.arg[2]
           IN  (req.calc.out = "nan") <=> ~(0 < rh /\ rh <= 10 * RH_MAX)

\* C24: for every register sequence long enough for the configured indices the
\* conversion gives humidity = registers[humiIndex] / scaleDivisor and
\* temperature = registers[tempIndex] / scaleDivisor (values in thousandths),
\* humidity first; registers [250, 600] give temp 25.0 and humi 60.0.
C24_ConversionBindsFields ==
    (req.calc.fn = "to_humi_temp" /\ Len(req.calc.arg) > Max(TEMP_INDEX, HUMI_INDEX))
        => LET regs == req.calc.arg
               out == req.calc.out
           IN  /\ out.err = "none"
               /\ Len(out.vals) = 2
               /\ out.vals[1] * SCALE_DIV = regs[HUMI_INDEX + 1] * 1000
               /\ out.vals[2] * SCALE_DIV = regs[TEMP_INDEX + 1] * 1000
               /\ regs = <<250, 600>> => out.vals = <<60000, 25000>>

\* the conversion of the registers [250, 600]
C24_Witness ==
    /\ req.calc.fn = "to_humi_temp"
    /\ req.calc.arg = <<250, 600>>
    /\ req.calc.out = [err |-> "none", vals |-> <<60000, 25000>>]

\* C25: when the response to the read of a unit carries fewer registers than
\* the indices need, the read fails and the payload of the tick holds the error
\* entry of that unit, with no humidity or temperature.
C25_ShortReadIsUnitError ==
    [][(poll.pc = "exchange" /\ poll'.pc # "exchange" /\ poll'.rr = "short")
          => /\ poll'.readOutcome[poll.label] = "fail"
             /\ poll'.payload.entries[poll.label] = ErrorEntry(poll.label)]_vars

\* C27: the pulse duration of an open/close command is the value of the request
\* body if one is given, else the value of the query parameter if one is given,
\* else the configured default; with both given it is the body's value.
C27_BodyThenQueryThenDefault ==
    req.calc.fn = "effective_ms"
        => LET body == req.calc.arg[1]
               query == req.calc.arg[2]
           IN  req.calc.out = IF body # <<>> THEN body[1]
                              ELSE IF query # <<>> THEN query[1]
                              ELSE DEFAULT_PULSE_MS

\* C28: for every configured poll period, zero and negative ones included, the
\* delay between the end of a tick and the start of the next is at least the
\* minimum period.
C28_PollDelayAtLeastMinimum ==
    req.calc.fn = "poll_delay" => req.calc.out >= MIN_POLL_MS

----------------------------------------------------------------------------
(* Properties of the shutdown of the application *)

\* C30: when the shutdown handler of the application has ended, by returning
\* or by an exception, the sensor tasks are stopped, the debounce sampler has
\* been told to stop and its line is released, and the actuator is idle with
\* both lines low and released.
C30_ShutdownClosesRoof ==
    shut.app \in {"closed", "returned", "raised"}
        => /\ shut.pc = "done"
           /\ life.stop /\ life.closed
           /\ state = "idle" /\ ~line["open"] /\ ~line["close"]
           /\ shut.app = "closed"

----------------------------------------------------------------------------
(* Properties of the standalone writer *)

\* C31: the writer loop never ends on a failure of the fetch or of the sink:
\* a step that fails leads to the handler, which waits the current backoff,
\* doubles it up to the bound and goes round the loop; the backoff is always
\* within 1..30 s and is min(2^n, 30) after n consecutive failures, and every
\* iteration that succeeded resets it to 1 s.
C31_WriterBackoff ==
    [][(req.calc.fn = "writer" /\ req.calc.pc # "exit")
        => LET w == req.calc
               v == req'.calc
           IN  /\ v.fn = "writer" /\ v.pc # "exit"
               /\ BACKOFF_START <= v.backoff /\ v.backoff <= BACKOFF_MAX
               /\ v.backoff = Min(Pow2(v.fails), BACKOFF_MAX)
               /\ (w.pc = "wait" => v.waited = w.backoff /\ v.pc = "double")
               /\ (w.pc = "double" => v.backoff = Min(2 * w.backoff, BACKOFF_MAX)
                                           /\ v.pc = "fetch")
               /\ (w.pc = "reset" => v.backoff = BACKOFF_START)
               /\ (w.pc \in {"fetch", "write"} /\ v.pc \notin {"write", "reset"}
                       => v.pc = "wait")]_vars

\* five failures in a row have taken the backoff to its bound, and a sixth
\* one has waited that long
C31_Witness ==
    /\ req.calc.fn = "writer" /\ req.calc.pc = "fetch"
    /\ req.calc.fails = MaxFails
    /\ req.calc.backoff = BACKOFF_MAX /\ req.calc.waited = BACKOFF_MAX

====
